---- MODULE Spec2Model ----
(***************************************************************************)
(* Model of the quiz calibration analysis (src/analysis/                   *)
(* analysis_N7_2526.py, with the normalizer shared with                    *)
(* analysis_SPECTRAL_2511.py) and of the quiz POST handler and the         *)
(* submission store of src/app.py.                                         *)
(*                                                                         *)
(* A submission row is a record                                            *)
(*   [timestamp, token, quiz_name, answers, score, total]                  *)
(* and an answer is a triple <<correct, chosen, confidence>>.              *)
(* A Python call either returns a value or raises: a result is a record    *)
(*   [exc |-> "none", val |-> v]   or   [exc |-> <exception>, val |-> <<>>]*)
(***************************************************************************)
EXTENDS Integers, Sequences, FiniteSets, TLC

VARIABLES
    call,           \* a direct function call: [op |-> name, ...arguments]
    ret,            \* its result
    \* analyze_calibration(csv_files, n_bins):
    pc,             \* its position
    csv_files,      \* argument: the files, each [stem, rows] with rows as read
    n_bins,         \* argument
    df_all,         \* load_data's DataFrame
    df,             \* the latest submissions
    students,       \* df['token'].unique()
    student_data,   \* token -> answers
    brier_scores,   \* token -> printed Brier score
    references,     \* reference name -> answers
    curves,         \* what plot_calibration plotted
    exc,            \* the exception that ended the run, or "none"
    storage,        \* app.py: the bucket, quiz code -> the stored <code>_answers.csv
    requests        \* app.py: the requests being served, each at its step

calls == <<call, ret>>
run == <<pc, csv_files, n_bins, df_all, df, students, student_data, brier_scores,
         references, curves, exc>>
web == <<storage, requests>>
vars == <<calls, run, web>>

(***************************** bounds **************************************)
MaxRows == 3        \* rows of a DataFrame handed to the normalizer
MaxTime == 2        \* distinct timestamps 1..MaxTime

MaxBins == 53       \* n_bins ranges over -MaxNegBins..MaxBins
MaxNegBins == 1
MaxAnswers == 2     \* answers of a sequence handed to the binner or the scorer
MaxPerBin == 1      \* reference sample sizes give 0..MaxPerBin answers per bin,
MaxRemainder == 1   \* plus a remainder of 0..MaxRemainder
RndPeriod == 2      \* the random source repeats after RndPeriod draws
MaxCsvRows == 2     \* rows of the CSV files analyze_calibration reads, in all
MaxRunBins == 2     \* analyze_calibration's n_bins ranges over -MaxNegBins..MaxRunBins
MaxPlotBins == 3    \* plot_calibration's n_bins ranges over 1..MaxPlotBins
MaxRefAnswers == 4  \* reference sample sizes 0..MaxRefAnswers handed to plot_calibration
MaxStudents == 2    \* students handed to plot_calibration
MaxQuestions == 2   \* questions of a quiz
MaxStored == 1      \* submissions a stored CSV holds before the requests start

Tokens == {"alice", "bob"}
Quizzes == {"UNIX101", "UNIX102"}
Timestamps == 1..MaxTime

(***************************** helpers *************************************)
Returned(v) == [exc |-> "none", val |-> v]
Raised(e) == [exc |-> e, val |-> <<>>]

Range(s) == {s[i] : i \in 1..Len(s)}

\* Python's sum(1 for correct, chosen, _ in answers if correct == chosen)
CorrectCount(answers) == Cardinality({i \in 1..Len(answers) : answers[i][1] = answers[i][2]})

\* The rows of s at the positions in keep, in their order in s
\* (a boolean-mask selection of a DataFrame followed by iteration).
SelectRows(s, keep) ==
    [k \in 1..Cardinality(keep) |->
        s[CHOOSE i \in keep : Cardinality({j \in keep : j <= i}) = k]]

\* All sequences over S of length 0..n
SeqsUpTo(S, n) == UNION {[1..k -> S] : k \in 0..n}

\* The answers a submission row can hold
RowAnswers == {<<<<0, 1, 60>>, <<2, 2, 90>>>>}

\* The record app.py's POST handler saves for a submission
MkRow(ts, token, quiz, answers) ==
    [timestamp |-> ts, token |-> token, quiz_name |-> quiz, answers |-> answers,
     score |-> CorrectCount(answers), total |-> Len(answers)]

Rows == {MkRow(ts, t, q, a) : ts \in Timestamps, t \in Tokens, q \in Quizzes, a \in RowAnswers}

\* The DataFrames of up to n rows
DataFrames(n) == SeqsUpTo(Rows, n)

(************************ Submission normalizer ****************************)
\* df.sort_values('timestamp'): the orders (permutations of the row positions)
\* the sort may produce.  The default kind is quicksort, which is not stable:
\* rows of equal timestamp may come out in any relative order.
sort_values(frame) ==
    {p \in [1..Len(frame) -> 1..Len(frame)] :
        /\ \A i, j \in 1..Len(frame) : i # j => p[i] # p[j]
        /\ \A i, j \in 1..Len(frame) : i < j => frame[p[i]].timestamp <= frame[p[j]].timestamp}

SameGroup(a, b) == a.token = b.token /\ a.quiz_name = b.quiz_name

\* Mutant: keeps all but the last row of each group (an off-by-one tail).
groupby_tail_dropping_last(s) ==
    SelectRows(s, {i \in 1..Len(s) : \E j \in (i+1)..Len(s) : SameGroup(s[i], s[j])})

\* Mutant: groups by token alone.
groupby_tail_by_token(s) ==
    SelectRows(s, {i \in 1..Len(s) : ~ \E j \in (i+1)..Len(s) : s[i].token = s[j].token})

\* groupby(['token', 'quiz_name']).tail(1).reset_index(drop=True):
\* the last row of each group, in the order of s
groupby_tail(s) ==
    SelectRows(s, {i \in 1..Len(s) : ~ \E j \in (i+1)..Len(s) : SameGroup(s[i], s[j])})

\* get_latest_submissions(df), p being the order the sort produced
get_latest_submissions(frame, p) ==
    groupby_tail([k \in 1..Len(frame) |-> frame[p[k]]])

(**************************** Calibration binner ***************************)
BinCounts == (0 - MaxNegBins)..MaxBins
Confidences == 0..100
\* Options a question offers in the sequences handed to the binner and scorer
\* (only correct == chosen matters to them)
InputOptions == {0, 1}
AnswerTriples == InputOptions \X InputOptions \X Confidences
SampleConfidences == {0, 40, 100}
\* Answer sequences: every single triple, and the sequences of up to MaxAnswers
\* triples over the sample confidences
AnswerSeqs ==
    {<<t>> : t \in AnswerTriples}
        \cup SeqsUpTo(InputOptions \X InputOptions \X SampleConfidences, MaxAnswers)

\* int(x) of a quotient a/100: truncation toward zero
TruncDiv100(a) == IF a >= 0 THEN a \div 100 ELSE 0 - ((0 - a) \div 100)

\* The (n_bins, confidence) pairs, n_bins in 1..64, where the double
\* confidence / (100 / n_bins) is an exact integer q in the reals and
\* 100 / n_bins rounds up, so that the double quotient is just below q and
\* int() yields q - 1 (e.g. 50 / (100 / 22) = 10.999999999999998).
\* For every other pair of that range int() yields the exact floor.
QuotientRoundsBelow ==
    {<<11, 100>>, <<22, 50>>, <<22, 100>>, <<44, 25>>, <<44, 50>>, <<44, 100>>}

\* int(confidence / bin_width) with bin_width = 100 / n_bins (n_bins # 0)
IntQuotient(confidence, nb) ==
    TruncDiv100(confidence * nb)
        - (IF <<nb, confidence>> \in QuotientRoundsBelow THEN 1 ELSE 0)

Min(a, b) == IF a <= b THEN a ELSE b

\* bin_idx = min(int(confidence / bin_width), n_bins - 1)
BinIndex(confidence, nb) == Min(IntQuotient(confidence, nb), nb - 1)

\* bin_answers(answers, n_bins): 100 / n_bins raises for n_bins = 0; bins has
\* the keys range(n_bins), and bins[bin_idx] raises KeyError for any other key
bin_answers(answers, nb) ==
    IF nb = 0 THEN Raised("ZeroDivisionError")
    ELSE IF \E k \in 1..Len(answers) : BinIndex(answers[k][3], nb) \notin 0..(nb - 1)
    THEN Raised("KeyError")
    ELSE Returned([i \in 0..(nb - 1) |->
            SelectSeq(answers, LAMBDA a : BinIndex(a[3], nb) = i)])

\* A centroid bin_width * i + bin_width / 2 as the fraction <<50 (2i + 1), n_bins>>
Centroid(i, nb) == <<50 * (2 * i + 1), nb>>

\* get_bin_centroids(n_bins)
get_bin_centroids(nb) ==
    IF nb = 0 THEN Raised("ZeroDivisionError")
    ELSE Returned([k \in 1..nb |-> Centroid(k - 1, nb)])

\* Mutant: the pessimistic accuracy computed like the optimistic one.
bin_statistics_minus_as_plus(bin) ==
    IF bin = <<>> THEN <<"None", "None", "None">>
    ELSE LET correct_count == CorrectCount(bin)
             total == Len(bin)
         IN <<<<correct_count, total>>, <<correct_count + 1, total + 1>>,
              <<correct_count + 1, total + 1>>>>

\* compute_bin_statistics(bin_answers): each accuracy as a fraction <<num, den>>
compute_bin_statistics(bin) ==
    IF bin = <<>> THEN <<"None", "None", "None">>
    ELSE LET correct_count == CorrectCount(bin)
             total == Len(bin)
         IN <<<<correct_count, total>>, <<correct_count + 1, total + 1>>,
              <<correct_count, total + 1>>>>

(********************************* Scorer **********************************)
\* Mutant: the confidence used as a probability without the division by 100.
SquaredErrorUnscaled(answer) ==
    LET correctness == IF answer[1] = answer[2] THEN 1 ELSE 0
    IN 10000 * (correctness - answer[3]) * (correctness - answer[3])

\* (correctness - confidence / 100.0) ** 2, in units of 1/10000
SquaredError(answer) ==
    LET correctness == IF answer[1] = answer[2] THEN 1 ELSE 0
    IN (100 * correctness - answer[3]) * (100 * correctness - answer[3])

RECURSIVE BrierSum(_)
BrierSum(answers) ==
    IF answers = <<>> THEN 0
    ELSE BrierSum(SubSeq(answers, 1, Len(answers) - 1)) + SquaredError(answers[Len(answers)])

\* calculate_brier_score(answers) as the fraction <<num, den>>: 0.0 for no
\* answer, else brier_sum / len(answers)
calculate_brier_score(answers) ==
    IF answers = <<>> THEN <<0, 1>>
    ELSE <<BrierSum(answers), 10000 * Len(answers)>>

(**************************** Reference generator **************************)
\* random.randint(0, 3)
Options == 0..3
\* The random source: a stream of draws, repeating after RndPeriod
RandomSources == [0..(RndPeriod - 1) -> Options]
Draw(rnd, d) == rnd[d % RndPeriod]
RefTypes == {"god", "monkey"}

\* The (n_bins, bin_idx) pairs, n_bins in 1..64, where the double
\* bin_width * bin_idx + bin_width / 2 is an exact integer q in the reals and
\* comes out just below q, so that int(centroid) yields q - 1.
\* For every other pair of that range int() yields the exact floor.
CentroidRoundsBelow ==
    {<<18, 13>>, <<23, 11>>, <<31, 15>>, <<46, 11>>, <<46, 34>>, <<51, 25>>,
     <<55, 5>>, <<55, 27>>, <<57, 28>>, <<58, 43>>, <<62, 15>>, <<63, 31>>}

\* int(centroid) for the centroid of bin bin_idx (n_bins >= 1)
IntCentroid(bin_idx, nb) ==
    (Centroid(bin_idx, nb)[1] \div nb)
        - (IF <<nb, bin_idx>> \in CentroidRoundsBelow THEN 1 ELSE 0)

\* Mutant: the 'god' agent draws its choice like the monkey.
ReferenceTripleAlwaysRandom(rnd, k, ref_type, confidence) ==
    <<Draw(rnd, 2 * k), Draw(rnd, 2 * k + 1), confidence>>

\* The k-th (from 0) triple of the generator's loops: 'god' takes one draw a
\* triple, any other ref_type two
ReferenceTriple(rnd, k, ref_type, confidence) ==
    IF ref_type = "god"
    THEN <<Draw(rnd, k), Draw(rnd, k), confidence>>
    ELSE <<Draw(rnd, 2 * k), Draw(rnd, 2 * k + 1), confidence>>

\* generate_reference_answers(n_answers, n_bins, ref_type), drawing from rnd:
\* 100 / n_bins raises for n_bins = 0, range(n_bins) is empty for n_bins < 0
generate_reference_answers(n_answers, nb, ref_type, rnd) ==
    IF nb = 0 THEN Raised("ZeroDivisionError")
    ELSE IF nb < 0 THEN Returned(<<>>)
    ELSE LET answers_per_bin == n_answers \div nb
         IN Returned([k \in 1..(nb * answers_per_bin) |->
                ReferenceTriple(rnd, k - 1, ref_type,
                                IntCentroid((k - 1) \div answers_per_bin, nb))])

\* Sample sizes around a whole number of answers per bin
Abs(n) == IF n >= 0 THEN n ELSE 0 - n
SampleSizes(nb) == {q * Abs(nb) + r : q \in 0..MaxPerBin, r \in 0..MaxRemainder}

(****************************** load_data **********************************)
\* The text of a CSV cell and what parsing it yields: a timestamp cell holds
\* an ISO date-time or something pd.to_datetime cannot parse, an answers cell
\* the repr of a list of triples or something ast.literal_eval cannot parse.
TimestampText(t) == [parses |-> TRUE, text |-> t]
AnswersText(a) == [parses |-> TRUE, text |-> a]
Garbled == [parses |-> FALSE, text |-> <<>>]

\* The answers a submission of each quiz holds: the quiz fixes the questions
\* and their correct options
CsvAnswers(stem) ==
    IF stem = "UNIX101" THEN <<<<0, 1, 60>>, <<2, 2, 90>>>> ELSE <<<<1, 1, 40>>>>

\* A CSV row as app.py writes it: timestamp, token, answers, score, total
CsvRow(ts, token, answers) ==
    [timestamp |-> ts, token |-> token, answers |-> answers,
     score |-> IF answers.parses THEN CorrectCount(answers.text) ELSE 0,
     total |-> IF answers.parses THEN Len(answers.text) ELSE 0]

ValidCsvRows(stem) ==
    {CsvRow(TimestampText(t), tok, AnswersText(CsvAnswers(stem))) :
        t \in Timestamps, tok \in Tokens}
MalformedCsvRows(stem) ==
    {CsvRow(Garbled, "alice", AnswersText(CsvAnswers(stem))),
     CsvRow(TimestampText(1), "alice", Garbled)}
CsvRows(stem) == ValidCsvRows(stem) \cup MalformedCsvRows(stem)

\* The two files of the module's example run, holding n rows at most in all
CsvInputs(n) ==
    UNION {{<<[stem |-> "UNIX101", rows |-> r1], [stem |-> "UNIX102", rows |-> r2]>> :
                r2 \in SeqsUpTo(CsvRows("UNIX102"), n - Len(r1))} :
           r1 \in SeqsUpTo(CsvRows("UNIX101"), n)}

RECURSIVE Concat(_)
\* pd.concat(dfs, ignore_index=True) of the files' rows, each with its quiz_name
Concat(files) ==
    IF files = <<>> THEN <<>>
    ELSE LET f == files[Len(files)]
         IN Concat(SubSeq(files, 1, Len(files) - 1)) \o
                [k \in 1..Len(f.rows) |->
                    [timestamp |-> f.rows[k].timestamp, token |-> f.rows[k].token,
                     quiz_name |-> f.stem, answers |-> f.rows[k].answers,
                     score |-> f.rows[k].score, total |-> f.rows[k].total]]

\* load_data(csv_files): pd.concat raises for no file, pd.to_datetime for a
\* timestamp it cannot parse, ast.literal_eval for answers it cannot parse;
\* nothing catches them
load_data(files) ==
    IF files = <<>> THEN Raised("ValueError")
    ELSE LET combined == Concat(files)
         IN IF \E k \in 1..Len(combined) : ~ combined[k].timestamp.parses
            THEN Raised("ValueError")
            ELSE IF \E k \in 1..Len(combined) : ~ combined[k].answers.parses
            THEN Raised("SyntaxError")
            ELSE Returned([k \in 1..Len(combined) |->
                    [timestamp |-> combined[k].timestamp.text,
                     token |-> combined[k].token,
                     quiz_name |-> combined[k].quiz_name,
                     answers |-> combined[k].answers.text,
                     score |-> combined[k].score, total |-> combined[k].total]])

(***************************** Answer extractor ****************************)
RECURSIVE Flatten(_)
Flatten(lists) ==
    IF lists = <<>> THEN <<>>
    ELSE Flatten(SubSeq(lists, 1, Len(lists) - 1)) \o lists[Len(lists)]

\* extract_all_answers(df, token): the answers of the rows of that token, in
\* the order of df
extract_all_answers(frame, token) ==
    LET student_rows == SelectSeq(frame, LAMBDA r : r.token = token)
    IN Flatten([k \in 1..Len(student_rows) |-> student_rows[k].answers])

\* calculate_final_scores(df)
calculate_final_scores(frame) ==
    [k \in 1..Len(frame) |->
        [token |-> frame[k].token, quiz_name |-> frame[k].quiz_name,
         score |-> frame[k].score, total |-> frame[k].total]]

\* df['token'].unique(): the tokens in the order of their first row
unique_tokens(frame) ==
    LET firsts == SelectRows(frame,
            {i \in 1..Len(frame) : ~ \E j \in 1..(i - 1) : frame[j].token = frame[i].token})
    IN [k \in 1..Len(firsts) |-> firsts[k].token]

(***************************** plot_calibration ****************************)
RefNames == <<"god", "monkey1", "monkey2", "monkey3">>
RefTypeOf(name) == IF name = "god" THEN "god" ELSE "monkey"

\* stats[i] * 100 for a fraction
Percent(x) == <<100 * x[1], x[2]>>

\* The student's part of the loop body: bin_answers may raise; the statistics
\* of an empty bin are appended as they are (the TypeError of None * 100 is
\* caught)
StudentCurve(answers, bins) ==
    LET binned == bin_answers(answers, bins)
    IN IF binned.exc # "none" THEN binned
       ELSE Returned([i \in 0..(bins - 1) |->
                LET stats == compute_bin_statistics(binned.val[i])
                IN IF stats[1] = "None" THEN stats
                   ELSE <<Percent(stats[1]), Percent(stats[2]), Percent(stats[3])>>])

\* The reference part: stats[0] * 100 is not guarded, None * 100 raises
ReferenceCurve(ref_answers, bins) ==
    LET binned == bin_answers(ref_answers, bins)
    IN IF binned.exc # "none" THEN binned
       ELSE IF \E i \in 0..(bins - 1) : binned.val[i] = <<>> THEN Raised("TypeError")
       ELSE Returned([i \in 0..(bins - 1) |->
                Percent(compute_bin_statistics(binned.val[i])[1])])

\* One pass of the loop over the students: the student's curves, then the
\* references' in the order of the dictionary (ref_curves: what ReferenceCurve
\* yields for each reference, the same in every pass)
PlotStudent(answers, ref_curves, bins) ==
    LET own == StudentCurve(answers, bins)
        failed == {r \in DOMAIN ref_curves : ref_curves[r].exc # "none"}
    IN IF own.exc # "none" THEN own
       ELSE IF failed # {}
       THEN ref_curves[CHOOSE r \in failed : \A q \in failed : r <= q]
       ELSE Returned([student |-> own.val,
                      refs |-> [r \in DOMAIN ref_curves |-> ref_curves[r].val]])

\* plot_calibration(student_data, references, n_bins), data and refs being
\* sequences in the order of the dictionaries: the exception of the first pass
\* that raises, else every student's curves
plot_calibration(data, refs, bins) ==
    LET centroids == get_bin_centroids(bins)
        ref_curves == [r \in DOMAIN refs |-> ReferenceCurve(refs[r], bins)]
        plots == [k \in 1..Len(data) |-> PlotStudent(data[k], ref_curves, bins)]
        failed == {k \in 1..Len(data) : plots[k].exc # "none"}
    IN IF centroids.exc # "none" THEN centroids
       ELSE IF failed # {}
       THEN plots[CHOOSE k \in failed : \A q \in failed : k <= q]
       ELSE Returned([centroids |-> centroids.val,
                      plots |-> [k \in 1..Len(data) |-> plots[k].val]])

(*************************** analyze_calibration ***************************)
\* n_avg = 2000
n_avg == 2000

RunBinCounts == (0 - MaxNegBins)..MaxRunBins
\* The random sources of a run: one that repeats a draw, one that counts
RunRandomSources ==
    {[i \in 0..(RndPeriod - 1) |-> 0], [i \in 0..(RndPeriod - 1) |-> i % 4]}

\* The source after d draws
Advance(rnd, d) == [i \in 0..(RndPeriod - 1) |-> rnd[(i + d) % RndPeriod]]

Init ==
    /\ call = [op |-> "analyze_calibration"]
    /\ ret = Returned(<<>>)
    /\ pc = "load_data"
    /\ csv_files \in CsvInputs(MaxCsvRows)
    /\ n_bins \in RunBinCounts
    /\ df_all = <<>>
    /\ df = <<>>
    /\ students = <<>>
    /\ student_data = <<>>
    /\ brier_scores = <<>>
    /\ references = <<>>
    /\ curves = <<>>
    /\ exc = "none"
    /\ storage = <<>>
    /\ requests = <<>>

Raise(e) ==
    /\ pc' = "raised"
    /\ exc' = e

\* df_all = load_data(csv_files)
LoadData ==
    /\ pc = "load_data"
    /\ LET loaded == load_data(csv_files)
       IN IF loaded.exc # "none"
          THEN /\ Raise(loaded.exc)
               /\ UNCHANGED df_all
          ELSE /\ df_all' = loaded.val
               /\ pc' = "get_latest_submissions"
               /\ UNCHANGED exc
    /\ UNCHANGED <<web, calls, csv_files, n_bins, df, students, student_data, brier_scores,
                   references, curves>>

\* df = get_latest_submissions(df_all); scores = calculate_final_scores(df);
\* students = df['token'].unique()
GetLatestSubmissions ==
    /\ pc = "get_latest_submissions"
    /\ \E p \in sort_values(df_all) :
        /\ df' = get_latest_submissions(df_all, p)
        /\ students' = unique_tokens(df')
    /\ pc' = "average"
    /\ UNCHANGED <<web, calls, csv_files, n_bins, df_all, student_data, brier_scores,
                   references, curves, exc>>

\* n_avg = int(total_answers / len(students))
AverageAnswers ==
    /\ pc = "average"
    /\ IF students = <<>>
       THEN Raise("ZeroDivisionError")
       ELSE /\ pc' = "brier"
            /\ UNCHANGED exc
    /\ UNCHANGED <<web, calls, csv_files, n_bins, df_all, df, students, student_data,
                   brier_scores, references, curves>>

\* One pass of "for token in students": the answers are extracted from df_all
ScoreStudent ==
    /\ pc = "brier"
    /\ Len(student_data) < Len(students)
    /\ LET token == students[Len(student_data) + 1]
           answers == extract_all_answers(df_all, token)
       IN /\ student_data' = Append(student_data, answers)
          /\ brier_scores' = Append(brier_scores, calculate_brier_score(answers))
    /\ UNCHANGED <<web, calls, pc, csv_files, n_bins, df_all, df, students, references,
                   curves, exc>>

\* The four generate_reference_answers(n_avg, n_bins, ...) calls, each drawing
\* where the one before stopped
GenerateReferences ==
    /\ pc = "brier"
    /\ Len(student_data) = Len(students)
    /\ \E rnd \in RunRandomSources :
        LET per_ref == IF n_bins > 0 THEN n_bins * (n_avg \div n_bins) ELSE 0
            gen == [k \in 1..4 |->
                      generate_reference_answers(n_avg, n_bins, RefTypeOf(RefNames[k]),
                          Advance(rnd, IF k = 1 THEN 0 ELSE per_ref + 2 * per_ref * (k - 2)))]
        IN IF gen[1].exc # "none"
           THEN /\ Raise(gen[1].exc)
                /\ UNCHANGED references
           ELSE /\ references' = [k \in 1..4 |-> gen[k].val]
                /\ pc' = "plot_calibration"
                /\ UNCHANGED exc
    /\ UNCHANGED <<web, calls, csv_files, n_bins, df_all, df, students, student_data,
                   brier_scores, curves>>

\* plot_calibration(student_data, references, n_bins, output_dir)
PlotCalibration ==
    /\ pc = "plot_calibration"
    /\ LET plotted == plot_calibration(student_data, references, n_bins)
       IN IF plotted.exc # "none"
          THEN /\ Raise(plotted.exc)
               /\ UNCHANGED curves
          ELSE /\ curves' = plotted.val
               /\ pc' = "done"
               /\ UNCHANGED exc
    /\ UNCHANGED <<web, calls, csv_files, n_bins, df_all, df, students, student_data,
                   brier_scores, references>>

Next ==
    \/ LoadData
    \/ GetLatestSubmissions
    \/ AverageAnswers
    \/ ScoreStudent
    \/ GenerateReferences
    \/ PlotCalibration

Spec == Init /\ [][Next]_vars

(************************* direct function calls ***************************)
Idle == [op |-> "idle"]

InitCalls ==
    /\ call = Idle
    /\ ret = Returned(<<>>)
    /\ pc = "idle"
    /\ csv_files = <<>>
    /\ n_bins = 0
    /\ df_all = <<>>
    /\ df = <<>>
    /\ students = <<>>
    /\ student_data = <<>>
    /\ brier_scores = <<>>
    /\ references = <<>>
    /\ curves = <<>>
    /\ exc = "none"
    /\ storage = <<>>
    /\ requests = <<>>

\* get_latest_submissions(df) on a collection of submission rows
CallGetLatest ==
    /\ call.op = "idle"
    /\ \E frame \in DataFrames(MaxRows) : \E p \in sort_values(frame) :
        /\ call' = [op |-> "get_latest_submissions", df |-> frame, pass |-> 1]
        /\ ret' = Returned(get_latest_submissions(frame, p))
    /\ UNCHANGED <<run, web>>

\* get_latest_submissions applied to its own output
CallGetLatestAgain ==
    /\ call.op = "get_latest_submissions"
    /\ call.pass = 1
    /\ \E p \in sort_values(ret.val) :
        /\ call' = [op |-> "get_latest_submissions", df |-> ret.val, pass |-> 2,
                    orig |-> call.df]
        /\ ret' = Returned(get_latest_submissions(ret.val, p))
    /\ UNCHANGED <<run, web>>

CallBinAnswers ==
    /\ call.op = "idle"
    /\ \E answers \in AnswerSeqs, nb \in BinCounts :
        /\ call' = [op |-> "bin_answers", answers |-> answers, n_bins |-> nb]
        /\ ret' = bin_answers(answers, nb)
    /\ UNCHANGED <<run, web>>

CallGetBinCentroids ==
    /\ call.op = "idle"
    /\ \E nb \in BinCounts :
        /\ call' = [op |-> "get_bin_centroids", n_bins |-> nb]
        /\ ret' = get_bin_centroids(nb)
    /\ UNCHANGED <<run, web>>

CallBinStatistics ==
    /\ call.op = "idle"
    /\ \E bin \in AnswerSeqs :
        /\ call' = [op |-> "compute_bin_statistics", bin |-> bin]
        /\ ret' = Returned(compute_bin_statistics(bin))
    /\ UNCHANGED <<run, web>>

CallBrierScore ==
    /\ call.op = "idle"
    /\ \E answers \in AnswerSeqs :
        /\ call' = [op |-> "calculate_brier_score", answers |-> answers]
        /\ ret' = Returned(calculate_brier_score(answers))
    /\ UNCHANGED <<run, web>>

CallGenerateReference ==
    /\ call.op = "idle"
    /\ \E nb \in BinCounts, ref_type \in RefTypes, rnd \in RandomSources :
        \E n_answers \in SampleSizes(nb) :
            /\ call' = [op |-> "generate_reference_answers", n_answers |-> n_answers,
                        n_bins |-> nb, ref_type |-> ref_type, rnd |-> rnd]
            /\ ret' = generate_reference_answers(n_answers, nb, ref_type, rnd)
    /\ UNCHANGED <<run, web>>

NextBinner ==
    \/ CallBinAnswers
    \/ CallGetBinCentroids
    \/ CallBinStatistics
    \/ CallBrierScore
    \/ CallGenerateReference

SpecBinner == InitCalls /\ [][NextBinner]_vars

NextNormalizer == CallGetLatest \/ CallGetLatestAgain

SpecNormalizer == InitCalls /\ [][NextNormalizer]_vars

\* The answers of a student handed to plot_calibration: none, one, two
PlotAnswers == {<<>>, <<<<0, 0, 40>>>>, <<<<0, 1, 40>>, <<1, 1, 100>>>>}

\* plot_calibration(student_data, references, n_bins) with the references
\* generate_reference_answers gives for a sample size and these n_bins
CallPlotCalibration ==
    /\ call.op = "idle"
    /\ \E nb \in 1..MaxPlotBins, n_answers \in 0..MaxRefAnswers, rnd \in RunRandomSources :
        \E data \in SeqsUpTo(PlotAnswers, MaxStudents) :
            LET refs == [k \in 1..4 |->
                    generate_reference_answers(n_answers, nb, RefTypeOf(RefNames[k]), rnd).val]
            IN /\ call' = [op |-> "plot_calibration", student_data |-> data,
                           references |-> refs, n_answers |-> n_answers, n_bins |-> nb]
               /\ ret' = plot_calibration(data, refs, nb)
    /\ UNCHANGED <<run, web>>

NextPlotter == CallPlotCalibration

SpecPlotter == InitCalls /\ [][NextPlotter]_vars

(********************************* app.py **********************************)
\* int(x) of a form field: request.form.get gives None for a missing field
FormNumbers == {"0", "1", "50", "100"}
NumberOf(text) ==
    CASE text = "0" -> 0 [] text = "1" -> 1 [] text = "50" -> 50 [] text = "100" -> 100
int(text) ==
    IF text = "None" THEN Raised("TypeError")
    ELSE IF text \in FormNumbers THEN Returned(NumberOf(text))
    ELSE Raised("ValueError")

\* What a POST can carry: the token, and per question id the chosen option
\* q<id> and the confidence c<id>
AllowedTokens == Tokens
FormTokens == Tokens \cup {"mallory"}
ChoiceTexts == {"None", "abc", "0", "1"}
ConfidenceTexts == {"None", "50", "100"}
Forms(n) == [0..(n - 1) -> [q : ChoiceTexts, c : ConfidenceTexts]]

\* load_quiz(code)["questions"]: the questions of a quiz file, ids 0, 1, ...
QuestionLists ==
    UNION {{[k \in 1..n |-> [id |-> k - 1, correct |-> correct[k]]] :
                correct \in [1..n -> 0..1]} : n \in 0..MaxQuestions}

RECURSIVE Graded(_, _)
\* The loop "for q in questions" of the POST handler: the triples collected,
\* or the exception of the first int() that raises
Graded(questions, form) ==
    IF questions = <<>> THEN Returned(<<>>)
    ELSE LET before == Graded(SubSeq(questions, 1, Len(questions) - 1), form)
             question == questions[Len(questions)]
             ans == int(form[question.id].q)
             conf == int(form[question.id].c)
         IN IF before.exc # "none" THEN before
            ELSE IF ans.exc # "none" THEN ans
            ELSE IF conf.exc # "none" THEN conf
            ELSE Returned(Append(before.val, <<question.correct, ans.val, conf.val>>))

\* score += 1 for each question with ans == q["correct"]
ScoreCountingAll(questions, answers) == Len(questions)
Score(questions, answers) ==
    Cardinality({k \in 1..Len(questions) : answers[k][2] = questions[k].correct})

\* The first line of a stored CSV, and a row as csv.writer writes it and
\* csv.reader reads it back: every cell the str() of its value
Header == <<"timestamp", "token", "answers", "score", "total">>
CsvLine(now, token, answers, score, total) ==
    <<ToString(now), token, ToString(answers), ToString(score), ToString(total)>>

NoFile == [exists |-> FALSE, rows |-> <<>>]
File(rows) == [exists |-> TRUE, rows |-> rows]

\* A request not yet received
NoRequest == [pc |-> "idle"]

\* Entering save_submission_supabase(quiz_code, token, answers, score, total)
save_submission_supabase(r, quiz_code, token, answers, score, total, questions) ==
    requests' = [requests EXCEPT ![r] =
        [pc |-> "download", quiz_code |-> quiz_code, token |-> token,
         answers |-> answers, score |-> score, total |-> total,
         questions |-> questions]]

\* POST /quiz/<code>: an unknown token renders the form again, a field that
\* is missing or not a number raises out of the handler, otherwise the
\* submission is graded and saved
QuizPost(r) ==
    /\ requests[r].pc = "idle"
    /\ \E code \in Quizzes, questions \in QuestionLists, token \in FormTokens :
        \E form \in Forms(Len(questions)) :
            LET graded == Graded(questions, form)
            IN IF token \notin AllowedTokens
               THEN requests' = [requests EXCEPT ![r] = [pc |-> "rejected"]]
               ELSE IF graded.exc # "none"
               THEN requests' = [requests EXCEPT ![r] = [pc |-> "raised", exc |-> graded.exc]]
               ELSE save_submission_supabase(r, code, token, graded.val,
                        Score(questions, graded.val), Len(questions), questions)
    /\ UNCHANGED <<calls, run, storage>>

\* supabase.storage.from_(bucket).download(filename), then rows.append(...):
\* the stored rows, or the header alone when the download raises, because the
\* file does not exist or for any other reason
Download(r) ==
    /\ requests[r].pc = "download"
    /\ \E now \in Timestamps, failed \in BOOLEAN :
        LET file == storage[requests[r].quiz_code]
            res == IF ~ file.exists THEN "missing" ELSE IF failed THEN "failed" ELSE "ok"
            rows == IF res = "ok" THEN file.rows ELSE <<Header>>
            line == CsvLine(now, requests[r].token, requests[r].answers,
                            requests[r].score, requests[r].total)
        IN requests' = [requests EXCEPT ![r] =
               [pc |-> "upload", quiz_code |-> requests[r].quiz_code, line |-> line,
                before |-> file, res |-> res, rows |-> Append(rows, line)]]
    /\ UNCHANGED <<calls, run, storage>>

\* supabase.storage.from_(bucket).upload(..., upsert): the file becomes the
\* rows written; a failure is swallowed
Upload(r) ==
    /\ requests[r].pc = "upload"
    /\ \E uploaded \in BOOLEAN :
        /\ storage' = IF uploaded
                      THEN [storage EXCEPT ![requests[r].quiz_code] = File(requests[r].rows)]
                      ELSE storage
        /\ requests' = [requests EXCEPT ![r] =
               [pc |-> "done", quiz_code |-> requests[r].quiz_code,
                line |-> requests[r].line, before |-> requests[r].before,
                res |-> requests[r].res, rows |-> requests[r].rows,
                uploaded |-> uploaded]]
    /\ UNCHANGED <<calls, run>>

\* The state the analysis leaves alone
InitWeb ==
    /\ call = Idle
    /\ ret = Returned(<<>>)
    /\ pc = "idle"
    /\ csv_files = <<>>
    /\ n_bins = 0
    /\ df_all = <<>>
    /\ df = <<>>
    /\ students = <<>>
    /\ student_data = <<>>
    /\ brier_scores = <<>>
    /\ references = <<>>
    /\ curves = <<>>
    /\ exc = "none"

\* One POST served on an empty bucket
InitQuiz ==
    /\ InitWeb
    /\ storage = [code \in Quizzes |-> NoFile]
    /\ requests = [r \in {"r1"} |-> NoRequest]

NextQuiz == \E r \in DOMAIN requests : QuizPost(r) \/ Download(r) \/ Upload(r)

SpecQuiz == InitQuiz /\ [][NextQuiz]_vars

\* The questions behind the answers a submission of each quiz holds
QuizQuestions(code) ==
    [k \in 1..Len(CsvAnswers(code)) |-> [id |-> k - 1, correct |-> CsvAnswers(code)[k][1]]]

\* The CSV files the bucket can hold before the requests start: none, or the
\* header and n submissions at most
StoredLine(code) ==
    CsvLine(1, "alice", CsvAnswers(code), CorrectCount(CsvAnswers(code)),
            Len(CsvAnswers(code)))
StoredFiles(code, n) ==
    {NoFile} \cup {File(<<Header>> \o [k \in 1..m |-> StoredLine(code)]) : m \in 0..n}

\* save_submission_supabase called for a graded submission of a quiz
SaveSubmission(r) ==
    /\ requests[r].pc = "idle"
    /\ \E code \in Quizzes, token \in Tokens :
        save_submission_supabase(r, code, token, CsvAnswers(code),
            CorrectCount(CsvAnswers(code)), Len(CsvAnswers(code)), QuizQuestions(code))
    /\ UNCHANGED <<calls, run, storage>>

\* Two requests served concurrently (Flask serves each request in its own
\* thread), on a bucket that may already hold submissions
InitStorage ==
    /\ InitWeb
    /\ storage \in [Quizzes -> UNION {StoredFiles(code, MaxStored) : code \in Quizzes}]
    /\ \A code \in Quizzes : storage[code] \in StoredFiles(code, MaxStored)
    /\ requests = [r \in {"r1", "r2"} |-> NoRequest]

NextStorage == \E r \in DOMAIN requests : SaveSubmission(r) \/ Download(r) \/ Upload(r)

SpecStorage == InitStorage /\ [][NextStorage]_vars

(******************************* claims ************************************)
\* C1: get_latest_submissions returns exactly one row per distinct
\* (token, quiz_name) pair of its input; that row is an input row of the pair
\* and no input row of the pair has a strictly later timestamp.
C1_LatestPerPair ==
    call.op = "get_latest_submissions" =>
        LET in == call.df
            out == ret.val
        IN /\ ret.exc = "none"
           /\ \A i \in 1..Len(in) :
                Cardinality({k \in 1..Len(out) : SameGroup(out[k], in[i])}) = 1
           /\ \A k \in 1..Len(out) :
                /\ out[k] \in Range(in)
                /\ \A i \in 1..Len(in) :
                     SameGroup(in[i], out[k]) => in[i].timestamp <= out[k].timestamp

\* An earlier submission A and a later submission B of the same respondent and
\* quiz were normalized: only B came out.
C1_Witness ==
    /\ call.op = "get_latest_submissions"
    /\ call.pass = 1
    /\ Len(call.df) = 3
    /\ \E i, j \in 1..3 :
        /\ SameGroup(call.df[i], call.df[j])
        /\ call.df[i].timestamp < call.df[j].timestamp
        /\ call.df[j] \in Range(ret.val)
        /\ call.df[i] \notin Range(ret.val)

\* C2: get_latest_submissions is idempotent: applied to its own output it
\* returns exactly the same set of rows.
C2_Idempotent ==
    (call.op = "get_latest_submissions" /\ call.pass = 2) =>
        /\ Range(ret.val) = Range(call.df)
        /\ Len(ret.val) = Len(call.df)

\* The normalizer was re-run on an output that had dropped a superseded row
\* and still holds two rows.
C2_Witness ==
    /\ call.op = "get_latest_submissions"
    /\ call.pass = 2
    /\ Len(call.orig) = 3
    /\ Len(call.df) = 2
    /\ Len(ret.val) = 2

\* Every answer of a binned sequence lies in a bin 0..n_bins-1, no answer is
\* lost or duplicated, and confidence 100 lies in the last bin (n_bins >= 1).
BinIndexInRange ==
    (call.op = "bin_answers" /\ call.n_bins >= 1) =>
        /\ ret.exc = "none"
        /\ DOMAIN ret.val = 0..(call.n_bins - 1)
        /\ \A k \in 1..Len(call.answers) :
             /\ Cardinality({i \in DOMAIN ret.val : call.answers[k] \in Range(ret.val[i])}) = 1
             /\ call.answers[k][3] = 100 =>
                    call.answers[k] \in Range(ret.val[call.n_bins - 1])
        /\ \A i \in DOMAIN ret.val : Range(ret.val[i]) \subseteq Range(call.answers)

\* The bin index of the binning rule, in exact arithmetic:
\* min(floor(c / (100 / n_bins)), n_bins - 1) = min(floor(c n_bins / 100), n_bins - 1)
RuleIndex(c, nb) == Min((c * nb) \div 100, nb - 1)

\* C3: for n_bins >= 1 and an integer confidence c in 0..100, bin_answers
\* places a triple of confidence c in exactly one bin, the one of index
\* min(floor(c / (100/n_bins)), n_bins-1), which lies in 0..n_bins-1;
\* confidence 100 is placed in bin n_bins-1.
C3_BinningRule ==
    (call.op = "bin_answers" /\ call.n_bins >= 1) =>
        /\ ret.exc = "none"
        /\ \A k \in 1..Len(call.answers) :
             LET c == call.answers[k][3]
             IN /\ RuleIndex(c, call.n_bins) \in 0..(call.n_bins - 1)
                /\ \A i \in DOMAIN ret.val :
                     call.answers[k] \in Range(ret.val[i]) <=> i = RuleIndex(c, call.n_bins)
                /\ c = 100 => call.answers[k] \in Range(ret.val[call.n_bins - 1])

\* a/b <= c/d for fractions <<a, b>>, <<c, d>> of positive denominators
FracLeq(x, y) == x[1] * y[2] <= y[1] * x[2]

\* C4: calculate_brier_score returns exactly 0.0 for an empty sequence, and
\* for a non-empty one the mean of the squared errors, which lies in [0, 1]:
\* the sum of (100 correctness - confidence)^2 is in 0..10000 len(answers).
C4_BrierRange ==
    call.op = "calculate_brier_score" =>
        /\ call.answers = <<>> => ret.val = <<0, 1>>
        /\ call.answers # <<>> => ret.val[2] = 10000 * Len(call.answers)
        /\ 0 <= ret.val[1]
        /\ ret.val[1] <= ret.val[2]

\* A two-answer sequence was scored at exactly 1.0 (both answers wrong at
\* confidence 100, or right at confidence 0).
C4_Witness ==
    /\ call.op = "calculate_brier_score"
    /\ Len(call.answers) = 2
    /\ ret.val = <<20000, 20000>>

\* C5: for a non-empty bin, compute_bin_statistics returns
\* actual = correct/total, optimistic = (correct+1)/(total+1) and
\* pessimistic = correct/(total+1), and pessimistic <= actual <= optimistic.
C5_BinStatistics ==
    (call.op = "compute_bin_statistics" /\ call.bin # <<>>) =>
        LET correct_count == Cardinality({k \in 1..Len(call.bin) : call.bin[k][1] = call.bin[k][2]})
            total_count == Len(call.bin)
            actual == ret.val[1]
            optimistic == ret.val[2]
            pessimistic == ret.val[3]
        IN /\ actual = <<correct_count, total_count>>
           /\ optimistic = <<correct_count + 1, total_count + 1>>
           /\ pessimistic = <<correct_count, total_count + 1>>
           /\ FracLeq(pessimistic, actual)
           /\ FracLeq(actual, optimistic)

\* The statistics of a bin of two answers, one of them correct:
\* 1/3 < 1/2 < 2/3.
C5_Witness ==
    /\ call.op = "compute_bin_statistics"
    /\ Len(call.bin) = 2
    /\ ret.val = <<<<1, 2>>, <<2, 3>>, <<1, 3>>>>

\* How often x occurs in the sequence s
Count(s, x) == Cardinality({k \in 1..Len(s) : s[k] = x})
SameTriples(a, b) ==
    /\ Len(a) = Len(b)
    /\ \A x \in Range(a) \cup Range(b) : Count(a, x) = Count(b, x)

\* C6: the answers analyze_calibration scores and bins for a respondent are
\* those of the normalized submissions only: the triples of the respondent's
\* latest submission of each quiz, none of a superseded submission.
C6_ScoredFromLatest ==
    \A k \in 1..Len(student_data) :
        /\ SameTriples(student_data[k], extract_all_answers(df, students[k]))
        /\ brier_scores[k] = calculate_brier_score(extract_all_answers(df, students[k]))

\* C7: for N >= 0 and n_bins >= 1, generate_reference_answers emits
\* N // n_bins triples for each of the n_bins centroids, each of confidence the
\* integer-truncated centroid, and bin_answers with the same n_bins puts
\* exactly N // n_bins of them in every bin (each triple in the bin whose
\* centroid produced it).
C7_EvenOverBins ==
    (call.op = "generate_reference_answers" /\ call.n_bins >= 1) =>
        LET n == call.n_bins
            per_bin == call.n_answers \div n
            binned == bin_answers(ret.val, n)
        IN /\ ret.exc = "none"
           /\ Len(ret.val) = n * per_bin
           /\ \A k \in 1..Len(ret.val) :
                ret.val[k][3] = (50 * (2 * ((k - 1) \div per_bin) + 1)) \div n
           /\ binned.exc = "none"
           /\ \A i \in 0..(n - 1) :
                /\ Len(binned.val[i]) = per_bin
                /\ binned.val[i] = SubSeq(ret.val, i * per_bin + 1, (i + 1) * per_bin)

\* C8: every triple generate_reference_answers produces for the perfect agent
\* ('god') has chosen_option = correct_option, whatever the random source yields.
C8_GodAlwaysCorrect ==
    (call.op = "generate_reference_answers" /\ call.ref_type = "god" /\ ret.exc = "none") =>
        \A k \in 1..Len(ret.val) : ret.val[k][2] = ret.val[k][1]

\* The perfect agent was generated from a random source that yielded two
\* different correct options.
C8_Witness ==
    /\ call.op = "generate_reference_answers"
    /\ call.ref_type = "god"
    /\ ret.exc = "none"
    /\ Len(ret.val) >= 2
    /\ ret.val[1][1] # ret.val[2][1]

MalformedRows ==
    {<<f, k>> \in {1, 2} \X (1..MaxCsvRows) :
        /\ k <= Len(csv_files[f].rows)
        /\ ~ (csv_files[f].rows[k].timestamp.parses /\ csv_files[f].rows[k].answers.parses)}
ValidRows ==
    {<<f, k>> \in {1, 2} \X (1..MaxCsvRows) :
        /\ k <= Len(csv_files[f].rows)
        /\ csv_files[f].rows[k].timestamp.parses
        /\ csv_files[f].rows[k].answers.parses}

\* C9: with one malformed row (unparseable timestamp or answers) among valid
\* rows, loading and analysing does not crash: the malformed row is dropped
\* and the valid rows are processed.
C9_MalformedRowIsolated ==
    (pc # "load_data" /\ Cardinality(MalformedRows) = 1 /\ ValidRows # {}) =>
        /\ exc \notin {"ValueError", "SyntaxError"}
        /\ Len(df_all) = Cardinality(ValidRows)

\* C10: n_bins < 1 is rejected with an error before any record is processed:
\* analyze_calibration raises before it loads data or computes a score, and
\* none of generate_reference_answers, get_bin_centroids, bin_answers returns.
C10_BadBinCountRejected ==
    n_bins < 1 =>
        /\ pc \in {"load_data", "raised"}
        /\ brier_scores = <<>>
        /\ references = <<>>
        /\ curves = <<>>


\* C11: an empty bin never makes plot_calibration fail: whatever the students'
\* answers and the references, the call returns, and the three accuracies
\* plotted for a student's empty bin are None
C11_EmptyBinNeverFails ==
    call.op = "plot_calibration" =>
        /\ ret.exc = "none"
        /\ \A k \in 1..Len(call.student_data) : \A i \in 0..(call.n_bins - 1) :
              bin_answers(call.student_data[k], call.n_bins).val[i] = <<>> =>
                  ret.val.plots[k].student[i] = <<"None", "None", "None">>


\* C12: every submission the POST handler passes to save_submission_supabase
\* holds one triple per question of the quiz, total is the number of
\* questions, score is the number of triples whose chosen option is the
\* correct one, and 0 <= score <= total = len(answers)
C12_SavedRecordInvariant ==
    \A r \in DOMAIN requests :
        requests[r].pc = "download" =>
            /\ Len(requests[r].answers) = Len(requests[r].questions)
            /\ \A k \in 1..Len(requests[r].questions) :
                  requests[r].answers[k][1] = requests[r].questions[k].correct
            /\ requests[r].total = Len(requests[r].questions)
            /\ requests[r].score = CorrectCount(requests[r].answers)
            /\ 0 <= requests[r].score
            /\ requests[r].score <= requests[r].total
            /\ requests[r].total = Len(requests[r].answers)

\* A saved submission of two questions, one answered correctly
C12_Witness ==
    \E r \in DOMAIN requests :
        /\ requests[r].pc = "download"
        /\ requests[r].total = 2
        /\ requests[r].score = 1


\* C13: no submission is lost to concurrency: once two calls for the same
\* quiz have both downloaded the file and both uploaded, the stored CSV holds
\* the rows stored before them and the rows of both
C13_NoLostSubmission ==
    \A r, q \in DOMAIN requests :
        (/\ r # q
         /\ requests[r].pc = "done" /\ requests[q].pc = "done"
         /\ requests[r].quiz_code = requests[q].quiz_code
         /\ requests[r].res = "ok" /\ requests[q].res = "ok"
         /\ requests[r].uploaded /\ requests[q].uploaded
         /\ Len(requests[r].before.rows) <= Len(requests[q].before.rows))
        => LET stored == storage[requests[r].quiz_code].rows
               R == requests[r].before.rows
           IN /\ Len(stored) = Len(R) + 2
              /\ SubSeq(stored, 1, Len(R)) = R
              /\ \E i, j \in (Len(R) + 1)..Len(stored) :
                    /\ i # j
                    /\ stored[i] = requests[r].line
                    /\ stored[j] = requests[q].line

\* C14: save_submission_supabase never removes a stored row: when the CSV
\* holds rows R before a call, no other call runs meanwhile and the upload
\* succeeds, the CSV afterwards holds R followed by the new row, also when
\* the download raised
C14_NeverRemovesRow ==
    \A r \in DOMAIN requests :
        (/\ requests[r].pc = "done"
         /\ requests[r].uploaded
         /\ requests[r].before.exists
         /\ \A q \in DOMAIN requests \ {r} : requests[q].pc = "idle")
        => storage[requests[r].quiz_code].rows =
               Append(requests[r].before.rows, requests[r].line)

=============================================================================
